---- MODULE Spec2Model ----
(***************************************************************************)
(* The travel-planner page script: the travelForm submit handler, the      *)
(* chat's sendMessage and addMessageToChat, and the module-level current*  *)
(* variables, as a state machine over the DOM fields the script touches    *)
(* and the requests it has in flight.                                      *)
(*                                                                         *)
(* Text that the script parses (the budget, the traveller count, the       *)
(* interests, the chat input) is a sequence of one-character strings;      *)
(* text that it only passes along (places, dates, messages of the server)  *)
(* is an opaque string.  The alphabet of parsed text is digits, ".", "-",  *)
(* ",", " " and the letters of the sample words: no "e", "x" or "I", so    *)
(* exponents, hex prefixes and "Infinity" do not arise.                    *)
(***************************************************************************)
EXTENDS Integers, Sequences, FiniteSets, TLC

\* ------------------------------------------------------------------ bounds
\* Form submissions made in one run.
MaxTrips == 2
\* sendMessage calls made in one run (no-op calls included).
MaxSends == 2

\* -------------------------------------------------------------------- text
DigitChars == <<"0", "1", "2", "3", "4", "5", "6", "7", "8", "9">>

IsDigit(c) == \E i \in 1..Len(DigitChars) : DigitChars[i] = c

DigitVal(c) == (CHOOSE i \in 1..Len(DigitChars) : DigitChars[i] = c) - 1

IsSpace(c) == c = " "

RECURSIVE TrimStart(_)
TrimStart(s) ==
    IF s # <<>> /\ IsSpace(Head(s)) THEN TrimStart(Tail(s)) ELSE s

RECURSIVE TrimEnd(_)
TrimEnd(s) ==
    IF s # <<>> /\ IsSpace(s[Len(s)]) THEN TrimEnd(SubSeq(s, 1, Len(s) - 1)) ELSE s

\* The input taken as it is, not trimmed.
Untrimmed(s) == s

\* String.prototype.trim
Trim(s) == TrimEnd(TrimStart(s))

\* String.prototype.split(','): the pieces between the commas, empty ones kept.
RECURSIVE Split(_)
Split(s) ==
    IF \E i \in 1..Len(s) : s[i] = ","
    THEN LET i == CHOOSE k \in 1..Len(s) :
                      s[k] = "," /\ \A j \in 1..(k - 1) : s[j] # ","
         IN  <<SubSeq(s, 1, i - 1)>> \o Split(SubSeq(s, i + 1, Len(s)))
    ELSE <<s>>

\* The pieces as split, not trimmed.
SplitOnly(s) == Split(s)

\* value.split(',').map(interest => interest.trim())
SplitInterests(s) == [i \in 1..Len(Split(s)) |-> Trim(Split(s)[i])]

\* ----------------------------------------------------------------- numbers
\* A JS number is m / 10^e with no trailing zero in the fraction, or NaN.
NaN == [nan |-> TRUE]

JsonNull == [null |-> TRUE]

RECURSIVE Normalise(_, _)
Normalise(m, e) ==
    IF e > 0 /\ m % 10 = 0 THEN Normalise(m \div 10, e - 1) ELSE [m |-> m, e |-> e]

Num(n) == [m |-> n, e |-> 0]

\* The longest prefix of s made of digits.
RECURSIVE DigitPrefix(_)
DigitPrefix(s) ==
    IF s # <<>> /\ IsDigit(Head(s)) THEN <<Head(s)>> \o DigitPrefix(Tail(s)) ELSE <<>>

RECURSIVE DigitsValue(_)
DigitsValue(d) ==
    IF d = <<>> THEN 0 ELSE 10 * DigitsValue(SubSeq(d, 1, Len(d) - 1)) + DigitVal(d[Len(d)])

RECURSIVE Pow10(_)
Pow10(k) == IF k = 0 THEN 1 ELSE 10 * Pow10(k - 1)

IsSign(c) == c = "-" \/ c = "+"

\* The text after leading white space and an optional sign, and the sign.
Unsigned(s) ==
    LET t == TrimStart(s)
    IN  IF t # <<>> /\ IsSign(Head(t)) THEN Tail(t) ELSE t

SignOf(s) ==
    LET t == TrimStart(s)
    IN  IF t # <<>> /\ Head(t) = "-" THEN -1 ELSE 1

\* parseInt(s): the integer its longest leading run of digits writes, else NaN.
ParseInt(s) ==
    LET d == DigitPrefix(Unsigned(s))
    IN  IF d = <<>> THEN NaN ELSE Num(SignOf(s) * DigitsValue(d))

\* parseFloat(s): digits, then optionally "." and digits; NaN when there is no digit.
ParseFloat(s) ==
    LET u    == Unsigned(s)
        ip   == DigitPrefix(u)
        rest == SubSeq(u, Len(ip) + 1, Len(u))
        fp   == IF rest # <<>> /\ Head(rest) = "." THEN DigitPrefix(Tail(rest)) ELSE <<>>
    IN  IF ip = <<>> /\ fp = <<>>
        THEN NaN
        ELSE Normalise(SignOf(s) * (DigitsValue(ip) * Pow10(Len(fp)) + DigitsValue(fp)),
                       Len(fp))

\* JSON.stringify of a number: NaN is written null.
JsonNumber(n) == IF n = NaN THEN JsonNull ELSE n

\* ------------------------------------------------------------------ inputs
\* The form of a page just loaded: every field empty, the box not ticked.
BlankForm ==
    [source |-> "", destination |-> "", startDate |-> "", endDate |-> "",
     budget |-> <<>>, numTravelers |-> <<>>, interests |-> <<>>,
     includeFlights |-> [present |-> TRUE, checked |-> FALSE]]

\* What the user can have in the form when submitting: nothing; the trip from
\* New York; a trip written with stray spaces, a fraction of a traveller and a
\* trailing comma, on a page without the includeFlights box.
Forms ==
    { BlankForm,
      [source |-> "NYC", destination |-> "Paris",
       startDate |-> "2024-06-01", endDate |-> "2024-06-10",
       budget |-> <<"2", "0", "0", "0">>, numTravelers |-> <<"2">>,
       interests |-> <<"a", "r", "t", ",", " ", "f", "o", "o", "d">>,
       includeFlights |-> [present |-> TRUE, checked |-> TRUE]],
      [source |-> "Rome", destination |-> "Oslo",
       startDate |-> "2025-01-05", endDate |-> "2025-01-09",
       budget |-> <<" ", "1", "2", ".", "5", "0">>, numTravelers |-> <<"3", ".", "7">>,
       interests |-> <<" ", "s", "k", "i", " ", ",">>,
       includeFlights |-> [present |-> FALSE, checked |-> FALSE]] }

\* What the user can type into the chat input.
ChatInputs ==
    { <<" ">>, <<" ", "h", "i", " ">>, <<"o", "k", "?">> }

\* The texts of the server used here: one plan and one flight summary per request,
\* one reply per chat request, so that each names the request it answers.
Plan(i) == [plan |-> i]

FlightDetails(i) == [flights |-> i]

Reply(j) == [reply |-> j]

\* A text the script or the server writes out in full.
Fixed(t) == [fixed |-> t]

\* A text the user typed.
Typed(chars) == [typed |-> chars]

\* What a /plan-trip request can settle with: a JSON body (with or without
\* flight_details; a failure with its error; a non-OK status with a detail), or
\* a rejection (the network fails, or the body is no JSON).
TripResponses(i) ==
    { [kind |-> "json", ok |-> TRUE,
       data |-> [success |-> TRUE, plan |-> Plan(i), flight_details |-> FlightDetails(i)]],
      [kind |-> "json", ok |-> TRUE,
       data |-> [success |-> TRUE, plan |-> Plan(i)]],
      [kind |-> "json", ok |-> TRUE,
       data |-> [success |-> FALSE, error |-> Fixed("Invalid dates")]],
      [kind |-> "json", ok |-> FALSE,
       data |-> [detail |-> Fixed("Unprocessable")]],
      [kind |-> "reject"] }

\* What a /chat request can settle with.
ChatResponses(j) ==
    { [kind |-> "json", ok |-> TRUE, data |-> [response |-> Reply(j)]],
      [kind |-> "json", ok |-> FALSE, data |-> [detail |-> Fixed("Server error")]],
      [kind |-> "reject"] }

\* data.f is there (a missing field reads undefined, which is falsy; the texts
\* of the server used here are not empty).
Present(data, f) == f \in DOMAIN data

\* data.success is truthy.
Succeeded(data) == Present(data, "success") /\ data.success

\* ------------------------------------------------------------------- state
VARIABLES
    markedLoaded,         \* typeof marked !== 'undefined' && marked.parse
    form,                 \* the values of the travelForm fields
    chatInput,            \* #chatInput.value
    loadingDisplay,       \* #loading.style.display
    resultDisplay,        \* #result.style.display
    resultClassHidden,    \* #result has class hidden
    planContent,          \* #planContent.innerHTML
    flightContent,        \* #flightContent.innerHTML
    flightDetailsHidden,  \* #flightDetails has class hidden
    chatBoxHidden,        \* #chatBox has class hidden
    chatMessages,         \* the children of #chatMessages, in order
    current,              \* currentTravelPlan and the other current* variables
    trips,                \* the submit handler's invocations, in call order
    chats,                \* sendMessage's invocations that issued a request
    sent,                 \* the requests issued, per endpoint, in order
    alerts,               \* the alerts shown, in order
    sendCalls,            \* how many times sendMessage was called
    rejections            \* how many sendMessage calls ended in a thrown error

dom == <<loadingDisplay, resultDisplay, resultClassHidden, planContent, flightContent,
         flightDetailsHidden, chatBoxHidden, chatMessages>>

vars == <<markedLoaded, form, chatInput, dom, current, trips, chats, sent, alerts,
          sendCalls, rejections>>

\* The result area is shown: no display:none and no class hidden.
ResultVisible == resultDisplay # "none" /\ ~resultClassHidden

LoadingShown == loadingDisplay # "none"

ChatActive == ~chatBoxHidden

\* let currentTravelPlan = ""; let currentBudget = 0; ...
InitialCurrent ==
    [travelPlan |-> Fixed(""), budget |-> Num(0), travelers |-> Num(1), interests |-> <<>>,
     includeFlights |-> FALSE, source |-> "", destination |-> "", startDate |-> ""]

\* The page as loaded.  The markup is not among the sources: the classes the
\* script removes (hidden on #result, #chatBox and #flightDetails) are taken to
\* be set, the spinner not to show, and the marked library to be loaded or not,
\* as the typeof test of line 50 provides for.
Init ==
    /\ markedLoaded \in BOOLEAN
    /\ form = BlankForm
    /\ chatInput = <<>>
    /\ loadingDisplay = "none"
    /\ resultDisplay = ""
    /\ resultClassHidden = TRUE
    /\ planContent = [kind |-> "empty"]
    /\ flightContent = [kind |-> "empty"]
    /\ flightDetailsHidden = TRUE
    /\ chatBoxHidden = TRUE
    /\ chatMessages = <<>>
    /\ current = InitialCurrent
    /\ trips = <<>>
    /\ chats = <<>>
    /\ sent = [trip |-> <<>>, chat |-> <<>>]
    /\ alerts = <<>>
    /\ sendCalls = 0
    /\ rejections = 0

\* ------------------------------------------------------------ the user
\* The user fills the form in (while a submission is still to come).
EditForm(f) ==
    /\ Len(trips) < MaxTrips
    /\ f # form
    /\ form' = f
    /\ UNCHANGED <<markedLoaded, chatInput, dom, current, trips, chats, sent, alerts,
                   sendCalls, rejections>>

\* The user types into the chat input, which takes a chat box that is shown
\* (while a call of sendMessage is still to come).
TypeChat(s) ==
    /\ sendCalls < MaxSends
    /\ ~chatBoxHidden
    /\ s # chatInput
    /\ chatInput' = s
    /\ UNCHANGED <<markedLoaded, form, dom, current, trips, chats, sent, alerts,
                   sendCalls, rejections>>

\* ------------------------------------------------- travelForm submit handler
\* The handler's constants, read from the form as it stands at the submit.
ReadForm(f) ==
    [source |-> f.source,
     destination |-> f.destination,
     startDate |-> f.startDate,
     endDate |-> f.endDate,
     budget |-> ParseFloat(f.budget),
     numTravelers |-> ParseInt(f.numTravelers),
     interests |-> SplitInterests(f.interests),
     includeFlights |-> IF f.includeFlights.present THEN f.includeFlights.checked ELSE FALSE]

\* The body of the /plan-trip request, as JSON.stringify writes it.
TripBody(h) ==
    [source |-> h.source,
     destination |-> h.destination,
     start_date |-> h.startDate,
     end_date |-> h.endDate,
     budget |-> JsonNumber(h.budget),
     num_travelers |-> JsonNumber(h.numTravelers),
     interests |-> h.interests,
     include_flights |-> h.includeFlights]

\* The submit event, up to the fetch: show the spinner, hide the result, read the
\* form, issue the request.  raw keeps the form as it was read.
Submit ==
    /\ Len(trips) < MaxTrips
    /\ loadingDisplay' = "block"
    /\ resultDisplay' = "none"
    /\ LET h == ReadForm(form)
       IN  /\ trips' = Append(trips, [raw |-> form, locals |-> h, pc |-> "await"])
           /\ sent' = [sent EXCEPT !.trip =
                          Append(@, [by |-> Len(trips) + 1, body |-> TripBody(h)])]
    /\ UNCHANGED <<markedLoaded, form, chatInput, resultClassHidden, planContent,
                   flightContent, flightDetailsHidden, chatBoxHidden, chatMessages,
                   current, chats, alerts, sendCalls, rejections>>

\* marked.parse(text) where marked is loaded, else the <pre> fallback of line 50.
RenderPlan(plan) ==
    IF markedLoaded THEN [kind |-> "markdown", text |-> plan]
                    ELSE [kind |-> "pre", text |-> plan]

\* alert('Error connecting to the server: ' + error.message)
ConnectAlert(cause) == [text |-> "Error connecting to the server: ", cause |-> cause]

\* currentTravelPlan = data.plan and the seven assignments after it.
StoreCurrent(plan, h) ==
    [travelPlan |-> plan, budget |-> h.budget, travelers |-> h.numTravelers,
     interests |-> h.interests, includeFlights |-> h.includeFlights,
     source |-> h.source, destination |-> h.destination, startDate |-> h.startDate]

\* The first half without the clearing of the chat.
ActivateChatKeepingTranscript(h, data) ==
    /\ planContent' = RenderPlan(data.plan)
    /\ UNCHANGED chatMessages
    /\ current' = StoreCurrent(data.plan, h)
    /\ chatBoxHidden' = FALSE

\* The first half of the branch of data.success: show the plan, clear the
\* chat, store the plan and the handler's constants, show the chat box.
ActivateChat(h, data) ==
    /\ planContent' = RenderPlan(data.plan)
    /\ chatMessages' = <<>>
    /\ current' = StoreCurrent(data.plan, h)
    /\ chatBoxHidden' = FALSE

\* resultDiv.style.display = 'block'; resultDiv.classList.remove('hidden')
ShowResult ==
    /\ resultDisplay' = "block"
    /\ resultClassHidden' = FALSE

\* The second half: the flight details, then the result area.
\* marked.parse(data.flight_details) is not guarded by the typeof test of the
\* first half: where marked is not loaded it throws, the rest of the branch is
\* skipped and the catch block alerts.
ShowFlightsAndResult(data) ==
    IF Present(data, "flight_details")
    THEN IF markedLoaded
         THEN /\ flightContent' = [kind |-> "markdown", text |-> data.flight_details]
              /\ flightDetailsHidden' = FALSE
              /\ ShowResult
              /\ UNCHANGED alerts
         ELSE /\ alerts' = Append(alerts, ConnectAlert("marked is not defined"))
              /\ UNCHANGED <<flightContent, flightDetailsHidden, resultDisplay,
                             resultClassHidden>>
    ELSE /\ flightDetailsHidden' = TRUE
         /\ ShowResult
         /\ UNCHANGED <<flightContent, alerts>>

ShowSuccess(h, data) ==
    /\ ActivateChat(h, data)
    /\ ShowFlightsAndResult(data)

\* The else branch: the error text in the result area.
ShowFailure(data) ==
    /\ planContent' =
           [kind |-> "error",
            text |-> IF Present(data, "error") THEN data.error
                     ELSE Fixed("Error generating travel plan. Please try again.")]
    /\ ShowResult
    /\ UNCHANGED <<flightContent, flightDetailsHidden, chatBoxHidden, chatMessages,
                   current, alerts>>

\* A catch block that writes its error into the result area, as the else
\* branch does.
ShowTransportFailureInResult ==
    /\ alerts' = Append(alerts, ConnectAlert("fetch"))
    /\ planContent' = [kind |-> "error", text |-> Fixed("Error connecting to the server")]
    /\ resultDisplay' = "block"
    /\ resultClassHidden' = FALSE
    /\ UNCHANGED <<flightContent, flightDetailsHidden, chatBoxHidden, chatMessages,
                   current>>

\* The catch block, entered from the fetch or from response.json().
ShowTransportFailure ==
    /\ alerts' = Append(alerts, ConnectAlert("fetch"))
    /\ UNCHANGED <<resultDisplay, resultClassHidden, planContent, flightContent,
                   flightDetailsHidden, chatBoxHidden, chatMessages, current>>

\* The spinner hidden at the end of the try block only, not where the catch
\* block ran.
HideLoadingUnlessCaught ==
    IF alerts' # alerts THEN UNCHANGED loadingDisplay ELSE loadingDisplay' = "none"

\* finally: hide the spinner.
HideLoading == loadingDisplay' = "none"

\* A handler that applies its response only if no later submit was made, and
\* drops it silently otherwise.
TripSettlesLatestOnly(i, r) ==
    /\ i \in 1..Len(trips)
    /\ trips[i].pc = "await"
    /\ r \in TripResponses(i)
    /\ IF i # Len(trips)
       THEN UNCHANGED <<resultDisplay, resultClassHidden, planContent, flightContent,
                        flightDetailsHidden, chatBoxHidden, chatMessages, current,
                        alerts, loadingDisplay>>
       ELSE /\ IF r.kind = "reject"
               THEN ShowTransportFailure
               ELSE IF Succeeded(r.data)
                    THEN ShowSuccess(trips[i].locals, r.data)
                    ELSE ShowFailure(r.data)
            /\ HideLoading
    /\ trips' = [trips EXCEPT ![i] = [raw |-> @.raw, locals |-> @.locals,
                                      pc |-> "done", resp |-> r]]
    /\ UNCHANGED <<markedLoaded, form, chatInput, chats, sent, sendCalls, rejections>>

\* The handler's invocation i resumes with the response r of its request: from
\* `await fetch` to the end of the handler.  Nothing of the page is read or
\* written between the two awaits, so they are one step.
TripSettles(i, r) ==
    /\ i \in 1..Len(trips)
    /\ trips[i].pc = "await"
    /\ r \in TripResponses(i)
    /\ IF r.kind = "reject"
       THEN ShowTransportFailure
       ELSE IF Succeeded(r.data)
            THEN ShowSuccess(trips[i].locals, r.data)
            ELSE ShowFailure(r.data)
    /\ HideLoading
    /\ trips' = [trips EXCEPT ![i] = [raw |-> @.raw, locals |-> @.locals,
                                      pc |-> "done", resp |-> r]]
    /\ UNCHANGED <<markedLoaded, form, chatInput, chats, sent, sendCalls, rejections>>

\* ------------------------------------------------------------------ chat
\* A chat request built from the form as it stands at the send.
ChatBodyFromForm(message) ==
    [question |-> message,
     travel_plan |-> current.travelPlan,
     budget |-> JsonNumber(ParseFloat(form.budget)),
     travelers |-> JsonNumber(ParseInt(form.numTravelers)),
     interests |-> SplitInterests(form.interests),
     include_flights |-> form.includeFlights.checked,
     source |-> form.source,
     destination |-> form.destination,
     start_date |-> form.startDate]

\* The body of the /chat request, as JSON.stringify writes it.
ChatBody(message) ==
    [question |-> message,
     travel_plan |-> current.travelPlan,
     budget |-> JsonNumber(current.budget),
     travelers |-> JsonNumber(current.travelers),
     interests |-> current.interests,
     include_flights |-> current.includeFlights,
     source |-> current.source,
     destination |-> current.destination,
     start_date |-> current.startDate]

\* The div addMessageToChat appends; call names the chat request it belongs to.
Turn(message, isUser, call) == [isUser |-> isUser, html |-> message, call |-> call]

\* The transcript with the new div put before the first div of a later call,
\* so that the turns stay in the order of the calls.
AddMessageInSendOrder(message, isUser, call) ==
    LET later == {k \in 1..Len(chatMessages) : chatMessages[k].call > call}
        at    == IF later = {} THEN Len(chatMessages) + 1
                 ELSE CHOOSE k \in later : \A l \in later : k <= l
    IN  chatMessages' = SubSeq(chatMessages, 1, at - 1)
                            \o <<Turn(message, isUser, call)>>
                            \o SubSeq(chatMessages, at, Len(chatMessages))

\* The transcript with the new div put first.
AddMessagePrepended(message, isUser, call) ==
    chatMessages' = <<Turn(message, isUser, call)>> \o chatMessages

\* addMessageToChat: the transcript with the new div at its end.  The caller
\* sees to marked.parse throwing where marked is not loaded.
AddMessageToChat(message, isUser, call) ==
    chatMessages' = Append(chatMessages, Turn(message, isUser, call))

\* if (!message) return;
IsBlank(message) == message = <<>>

\* A call of sendMessage, up to the fetch.  With nothing but white space in the
\* input it returns at once.  Else it clears the input and appends the user's
\* turn; addMessageToChat is called outside the try block, so where marked is
\* not loaded the call ends there in a thrown error, with no request issued.
SendMessage ==
    /\ sendCalls < MaxSends
    /\ sendCalls' = sendCalls + 1
    /\ LET message == Trim(chatInput)
       IN  IF IsBlank(message)
           THEN UNCHANGED <<chatInput, chatMessages, chats, sent, rejections>>
           ELSE /\ chatInput' = <<>>
                /\ IF markedLoaded
                   THEN /\ AddMessageToChat(Typed(message), TRUE, Len(chats) + 1)
                        /\ chats' = Append(chats, [message |-> message, pc |-> "await"])
                        /\ sent' = [sent EXCEPT !.chat =
                                       Append(@, [by |-> Len(chats) + 1,
                                                  body |-> ChatBody(message)])]
                        /\ UNCHANGED rejections
                   ELSE /\ rejections' = rejections + 1
                        /\ UNCHANGED <<chatMessages, chats, sent>>
    /\ UNCHANGED <<markedLoaded, form, loadingDisplay, resultDisplay, resultClassHidden,
                   planContent, flightContent, flightDetailsHidden, chatBoxHidden,
                   current, trips, alerts>>

\* An assistant's turn that passes the server's error on where the status is
\* not OK.
AssistantTextPassingDetail(r) ==
    IF r.kind = "reject"
    THEN Fixed("Error connecting to the server. Please try again.")
    ELSE IF r.ok THEN r.data.response ELSE r.data.detail

\* The assistant's turn for the response r: data.response, or one of the two
\* fallback texts.
AssistantText(r) ==
    IF r.kind = "reject"
    THEN Fixed("Error connecting to the server. Please try again.")
    ELSE IF r.ok
         THEN r.data.response
         ELSE Fixed("Sorry, I couldn't process your question. Please try again.")

\* The sendMessage call behind chats[j] resumes with the response r of its
\* request: from `await fetch` to the end of the function (the two awaits are one
\* step, as nothing is read or written between them).
ChatSettles(j, r) ==
    /\ j \in 1..Len(chats)
    /\ chats[j].pc = "await"
    /\ r \in ChatResponses(j)
    /\ IF markedLoaded
       THEN /\ AddMessageToChat(AssistantText(r), FALSE, j)
            /\ UNCHANGED rejections
       ELSE /\ rejections' = rejections + 1
            /\ UNCHANGED chatMessages
    /\ chats' = [chats EXCEPT ![j] = [message |-> @.message, pc |-> "done", resp |-> r]]
    /\ UNCHANGED <<markedLoaded, form, chatInput, loadingDisplay, resultDisplay,
                   resultClassHidden, planContent, flightContent, flightDetailsHidden,
                   chatBoxHidden, current, trips, sent, alerts, sendCalls>>

\* ------------------------------------------------------------ specification
Next ==
    \/ \E f \in Forms : EditForm(f)
    \/ \E s \in ChatInputs : TypeChat(s)
    \/ Submit
    \/ \E i \in 1..MaxTrips : \E r \in TripResponses(i) : TripSettles(i, r)
    \/ SendMessage
    \/ \E j \in 1..MaxSends : \E r \in ChatResponses(j) : ChatSettles(j, r)

Spec == Init /\ [][Next]_vars

\* Every issued trip request settles in the end (what the claims about the
\* spinner going away assume of the server and the network).
FairSpec ==
    Spec /\ \A i \in 1..MaxTrips : WF_vars(\E r \in TripResponses(i) : TripSettles(i, r))

\* ------------------------------------------------------------- vocabulary
\* In this step invocation i of the submit handler applies its response.
TripApplied(i) ==
    /\ i \in 1..Len(trips)
    /\ trips[i].pc = "await"
    /\ trips'[i].pc = "done"

\* Invocation i has applied a response that says success.
TripSucceeded(i) ==
    /\ trips[i].pc = "done"
    /\ trips[i].resp.kind = "json"
    /\ Succeeded(trips[i].resp.data)

\* Invocation i has applied a response that says failure, in either shape.
TripFailed(i) ==
    /\ trips[i].pc = "done"
    /\ trips[i].resp.kind = "json"
    /\ ~Succeeded(trips[i].resp.data)

\* Invocation i ended in the catch block for a request that did not get through.
TripRejected(i) ==
    /\ trips[i].pc = "done"
    /\ trips[i].resp.kind = "reject"

\* The plan area shows a plan, not an error text and not nothing.
ShowsPlan == planContent.kind \in {"markdown", "pre"}

ShowsError == planContent.kind = "error"

\* ------------------------------------------------------------------ claims
\* C1: applying a success response leaves the result area visible, the chat
\* box shown and the transcript empty, and a submission applies its response
\* once: an invocation that is done stays as it is.
C1_SuccessActivatesChat ==
    [][\A i \in 1..Len(trips) :
          /\ (TripApplied(i) /\ TripSucceeded(i)')
                 => (ResultVisible' /\ ChatActive' /\ chatMessages' = <<>>)
          /\ trips[i].pc = "done" => trips'[i] = trips[i]]_vars

\* C2: the chat box is shown only while the plan area shows a plan: never
\* beside an error text, and never with the result area showing nothing.
C2_ChatOnlyBesideSuccess ==
    ChatActive => ShowsPlan

\* In this step the submit handler is invoked.
Submitted == Len(trips') = Len(trips) + 1

\* C3: a submit shows the spinner and hides the result area in the step that
\* issues the request; the step that applies the response, whatever it is,
\* hides the spinner; and, every request settling, a spinner that is shown is
\* hidden in the end.
C3_LoadingHiddenOnSettle ==
    /\ [][/\ Submitted =>
                /\ LoadingShown' /\ ~ResultVisible'
                /\ Len(sent'.trip) = Len(sent.trip) + 1
          /\ \A i \in 1..Len(trips) : TripApplied(i) => ~LoadingShown']_vars
    /\ (LoadingShown ~> ~LoadingShown)

\* Each way of settling has hidden the spinner: a success, a failure and a
\* request that did not get through are all applied and no spinner shows.
C3_Witness ==
    /\ ~LoadingShown
    /\ \E i \in 1..Len(trips) : TripRejected(i)
    /\ \E i \in 1..Len(trips) : TripFailed(i) \/ TripSucceeded(i)

\* Every character of s is white space (so is the empty text).
OnlySpaces(s) == \A k \in 1..Len(s) : s[k] = " "

\* In this step sendMessage is called.
SendCalled == sendCalls' = sendCalls + 1

\* C4: a call of sendMessage with an input of white space only changes
\* nothing: no request, no turn, the input as it was, no flag, no stored value.
C4_BlankSendIsNoOp ==
    [][(SendCalled /\ OnlySpaces(chatInput)) =>
          UNCHANGED <<markedLoaded, form, chatInput, dom, current, trips, chats, sent,
                      alerts, rejections>>]_vars

\* The last call allowed was made, the chat box showing, with a blank in the
\* input (nothing is typed after it), and no call has issued a request.
C4_Witness ==
    /\ sendCalls = MaxSends
    /\ ChatActive
    /\ chatInput = <<" ">>
    /\ sent.chat = <<>>

\* In this step the sendMessage call behind chats[j] applies its response.
ChatApplied(j) ==
    /\ j \in 1..Len(chats)
    /\ chats[j].pc = "await"
    /\ chats'[j].pc = "done"

\* chats[j] has applied a response that is no success: the request did not get
\* through, or the status was not OK.
ChatFailed(j) ==
    /\ chats[j].pc = "done"
    /\ (chats[j].resp.kind = "reject" \/ ~chats[j].resp.ok)

\* The last turn of a transcript.
Last(seq) == seq[Len(seq)]

\* The two fallback texts of sendMessage.
Fallbacks ==
    { Fixed("Sorry, I couldn't process your question. Please try again."),
      Fixed("Error connecting to the server. Please try again.") }

\* C5: a call of sendMessage with more than white space in the input appends
\* one turn, the user's, in the step of the call, which issues one request; the
\* step that applies the response appends one turn, the assistant's: the
\* response text on success, a fallback text on failure.  Two turns per send.
C5_SendAppendsTwoTurns ==
    [][/\ (SendCalled /\ ~OnlySpaces(chatInput)) =>
              /\ Len(chatMessages') = Len(chatMessages) + 1
              /\ SubSeq(chatMessages', 1, Len(chatMessages)) = chatMessages
              /\ Last(chatMessages').isUser
              /\ Len(sent'.chat) = Len(sent.chat) + 1
       /\ \A j \in 1..Len(chats) : ChatApplied(j) =>
              /\ Len(chatMessages') = Len(chatMessages) + 1
              /\ SubSeq(chatMessages', 1, Len(chatMessages)) = chatMessages
              /\ ~Last(chatMessages').isUser
              /\ IF ChatFailed(j)'
                 THEN Last(chatMessages').html \in Fallbacks
                 ELSE Last(chatMessages').html = Reply(j)]_vars

\* C6: when a success is applied after another submission has succeeded, the
\* transcript is empty right after: no turn of the earlier plan's chat is left.
C6_ResubmitClearsTranscript ==
    [][\A i \in 1..Len(trips) :
          (/\ TripApplied(i)
           /\ TripSucceeded(i)'
           /\ \E k \in 1..Len(trips) : k # i /\ TripSucceeded(k))
              => chatMessages' = <<>>]_vars

\* Two submissions have succeeded, a chat request was answered (so turns stood
\* in the transcript), and the transcript is empty.
C6_Witness ==
    /\ Len(trips) >= 2
    /\ \A i \in 1..Len(trips) : TripSucceeded(i)
    /\ \E j \in 1..Len(chats) : chats[j].pc = "done"
    /\ chatMessages = <<>>

\* The form values of invocation i, as they were when it read them.
Raw(i) == trips[i].raw

\* C7, as claimed: one request per submission, and the body of the k-th is the
\* image of the form read by the k-th submit, budget and num_travelers being
\* the numbers parseFloat and parseInt give.
C7_PayloadIsFormImage ==
    /\ Len(sent.trip) = Len(trips)
    /\ \A k \in 1..Len(sent.trip) :
          /\ sent.trip[k].by = k
          /\ sent.trip[k].body =
                 [source |-> Raw(k).source,
                  destination |-> Raw(k).destination,
                  start_date |-> Raw(k).startDate,
                  end_date |-> Raw(k).endDate,
                  budget |-> ParseFloat(Raw(k).budget),
                  num_travelers |-> ParseInt(Raw(k).numTravelers),
                  interests |-> SplitInterests(Raw(k).interests),
                  include_flights |-> Raw(k).includeFlights.checked]

\* C7, amended: the same, but a budget or a traveller count that parses to NaN
\* is written null in the body.  The three forms give the bodies spelled out.
C7_PayloadIsEncodedFormImage ==
    /\ Len(sent.trip) = Len(trips)
    /\ \A k \in 1..Len(sent.trip) :
          LET b == sent.trip[k].body
              f == Raw(k)
          IN  /\ sent.trip[k].by = k
              /\ b.source = f.source
              /\ b.destination = f.destination
              /\ b.start_date = f.startDate
              /\ b.end_date = f.endDate
              /\ b.budget = IF ParseFloat(f.budget) = NaN THEN JsonNull
                            ELSE ParseFloat(f.budget)
              /\ b.num_travelers = IF ParseInt(f.numTravelers) = NaN THEN JsonNull
                                   ELSE ParseInt(f.numTravelers)
              /\ b.include_flights = f.includeFlights.checked
              /\ f.source = "NYC" =>
                    /\ b.budget = [m |-> 2000, e |-> 0]
                    /\ b.num_travelers = [m |-> 2, e |-> 0]
                    /\ b.interests = << <<"a", "r", "t">>, <<"f", "o", "o", "d">> >>
              /\ f.source = "Rome" =>
                    /\ b.budget = [m |-> 125, e |-> 1]
                    /\ b.num_travelers = [m |-> 3, e |-> 0]
                    /\ b.interests = << <<"s", "k", "i">>, <<>> >>
              /\ f.source = "" =>
                    /\ b.budget = JsonNull
                    /\ b.num_travelers = JsonNull
                    /\ b.interests = << <<>> >>

\* Two requests were issued: one for a form whose budget is no number, one for
\* a form whose interests end in a comma.
C7_Witness ==
    /\ Len(sent.trip) = 2
    /\ \E k \in 1..2 : Raw(k).budget = <<>> /\ sent.trip[k].body.budget = JsonNull
    /\ \E k \in 1..2 : /\ Raw(k).interests # <<>>
                       /\ Last(Raw(k).interests) = ","
                       /\ Last(sent.trip[k].body.interests) = <<>>

\* The requests issued for chats[j].
RequestsOf(j) == {k \in 1..Len(sent.chat) : sent.chat[k].by = j}

\* C8: the step that applies a failed chat response appends one assistant
\* turn with a fallback text, throws nothing, issues no request and leaves the
\* stored plan and snapshot alone; a message has one request, whatever comes.
C8_ChatFailureFallsBack ==
    /\ [][\A j \in 1..Len(chats) :
             (ChatApplied(j) /\ ChatFailed(j)') =>
                 /\ \E t \in Fallbacks :
                       chatMessages' = Append(chatMessages, Turn(t, FALSE, j))
                 /\ rejections' = rejections
                 /\ sent' = sent
                 /\ current' = current]_vars
    /\ [](\A j \in 1..Len(chats) : Cardinality(RequestsOf(j)) = 1)

\* Both kinds of failure were applied, and the transcript ends in a fallback.
C8_Witness ==
    /\ \E j \in 1..Len(chats) : chats[j].pc = "done" /\ chats[j].resp.kind = "reject"
    /\ \E j \in 1..Len(chats) :
          chats[j].pc = "done" /\ chats[j].resp.kind = "json" /\ ~chats[j].resp.ok
    /\ chatMessages # <<>>
    /\ Last(chatMessages).html \in Fallbacks

\* C9: the step that handles a trip request that did not get through alerts
\* once and hides the spinner; the result area, the plan and flight areas, the
\* chat box, the transcript and the stored plan and snapshot stay as they were.
C9_TransportFailureOnlyAlerts ==
    [][\A i \in 1..Len(trips) :
          (TripApplied(i) /\ TripRejected(i)') =>
              /\ Len(alerts') = Len(alerts) + 1
              /\ ~LoadingShown'
              /\ UNCHANGED <<resultDisplay, resultClassHidden, planContent,
                             flightContent, flightDetailsHidden, chatBoxHidden,
                             chatMessages, current>>]_vars

\* A request that did not get through was handled: alerted, the spinner
\* hidden, the result area hidden as the submit left it.
C9_Witness ==
    /\ \E i \in 1..Len(trips) : TripRejected(i)
    /\ alerts # <<>>
    /\ ~LoadingShown
    /\ ~ResultVisible

\* C10: every chat request carries the plan of a submission that succeeded
\* and, as its snapshot, what that submission read from the form and sent in
\* its own request; what the form holds now plays no part.
C10_SnapshotOfOneSubmission ==
    \A k \in 1..Len(sent.chat) :
        LET b == sent.chat[k].body
        IN  \E i \in 1..Len(trips) :
                /\ TripSucceeded(i)
                /\ b.travel_plan = trips[i].resp.data.plan
                /\ b.source = Raw(i).source
                /\ b.destination = Raw(i).destination
                /\ b.start_date = Raw(i).startDate
                /\ b.budget = sent.trip[i].body.budget
                /\ b.travelers = sent.trip[i].body.num_travelers
                /\ b.interests = sent.trip[i].body.interests
                /\ b.include_flights = sent.trip[i].body.include_flights

\* A chat request was issued after the form was changed: its snapshot names
\* another place than the form does now, and another than the latest submit read.
C10_Witness ==
    /\ Len(trips) = 2
    /\ \E k \in 1..Len(sent.chat) :
          /\ sent.chat[k].body.destination # form.destination
          /\ sent.chat[k].body.destination # Raw(2).destination

\* The invocations of the submit handler whose request has not settled.
InFlight == {i \in 1..Len(trips) : trips[i].pc = "await"}

\* C11: while a submission waits for its response the chat box is not shown
\* and the transcript holds no turn.
C11_PendingResetsChat ==
    InFlight # {} => (~ChatActive /\ chatMessages = <<>>)

\* The positions of the assistant's turns for chats[j] in the transcript.
AssistantAt(j) ==
    {k \in 1..Len(chatMessages) : ~chatMessages[k].isUser /\ chatMessages[k].call = j}

\* The chat requests that have not settled.
ChatsInFlight == {j \in 1..Len(chats) : chats[j].pc = "await"}

\* C12: a send made while a chat request is in flight issues its own request
\* at once and leaves the other in flight (nothing is queued or cancelled);
\* and the step that applies a response puts the assistant's turn at the end
\* of the transcript, whichever request was sent first.
C12_AssistantTurnsInCompletionOrder ==
    [][/\ (SendCalled /\ Len(sent'.chat) = Len(sent.chat) + 1) =>
              ChatsInFlight' = ChatsInFlight \cup {Len(chats')}
       /\ \A j \in 1..Len(chats) : ChatApplied(j) =>
              /\ chatMessages' # <<>>
              /\ AssistantAt(j)' = {Len(chatMessages')}
              /\ ChatsInFlight' = ChatsInFlight \ {j}]_vars

\* Two requests were in flight together and the second was answered first:
\* the answer to the later message stands before the answer to the earlier.
C12_Witness ==
    \E a \in AssistantAt(1), b \in AssistantAt(2) : b < a

\* C13: the step that applies a success stores the plan and the constants of
\* its own invocation and empties the transcript, whether or not a later
\* submission exists or has been applied; and a submit made while a request is
\* in flight leaves that request in flight and issues its own.
C13_StaleSuccessOverwrites ==
    [][/\ \A i \in 1..Len(trips) :
              (TripApplied(i) /\ TripSucceeded(i)') =>
                  /\ current'.travelPlan = Plan(i)
                  /\ current'.destination = Raw(i).destination
                  /\ current'.interests = sent.trip[i].body.interests
                  /\ planContent'.text = Plan(i)
                  /\ chatMessages' = <<>>
       /\ Submitted => InFlight' = InFlight \cup {Len(trips')}]_vars

\* Every request has settled, the latest submission succeeded, and the plan
\* stored and shown is the one of the submission before it.
C13_Witness ==
    /\ Len(trips) = 2
    /\ InFlight = {}
    /\ TripSucceeded(1)
    /\ TripSucceeded(2)
    /\ current.travelPlan = Plan(1)
    /\ planContent.text = Plan(1)
    /\ current.destination = Raw(1).destination

\* The positions of the user's turns in the transcript.
UserTurns == {k \in 1..Len(chatMessages) : chatMessages[k].isUser}

\* C14: the user's turns stand in the transcript in the order of their calls,
\* whatever the order in which the requests settle.
C14_UserTurnsInCallOrder ==
    \A k \in UserTurns, l \in UserTurns :
        k < l => chatMessages[k].call < chatMessages[l].call

\* Two messages were sent before either was answered and the answers came in
\* the other order: the user's turns first, in call order, then the answers.
C14_Witness ==
    /\ Len(chatMessages) = 4
    /\ UserTurns = {1, 2}
    /\ chatMessages[1].call = 1
    /\ chatMessages[2].call = 2
    /\ chatMessages[3].call = 2
    /\ chatMessages[4].call = 1

\* The flight-details section is shown (within a result area that is shown).
FlightsVisible == ResultVisible /\ ~flightDetailsHidden

\* The plan area shows the plan of a success whose response held flight_details.
ShowsPlanWithFlights ==
    /\ ShowsPlan
    /\ \E i \in 1..Len(trips) :
          /\ TripSucceeded(i)
          /\ planContent.text = trips[i].resp.data.plan
          /\ Present(trips[i].resp.data, "flight_details")

\* C15: with the result area shown, the flight-details section is shown only
\* if the result on display is a success that came with flight details.
C15_FlightsOnlyWithFlightResult ==
    FlightsVisible => ShowsPlanWithFlights

\* C16: the spinner shows exactly when a trip request is in flight.
C16_LoadingIffInFlight ==
    LoadingShown <=> InFlight # {}

\* C17: every assistant's turn stands after the user's turn of the same call,
\* so the assistant's turns are no more than the user's.
C17_AssistantAnswersUserTurn ==
    /\ \A k \in 1..Len(chatMessages) :
          ~chatMessages[k].isUser =>
              \E l \in 1..(k - 1) :
                  chatMessages[l].isUser /\ chatMessages[l].call = chatMessages[k].call
    /\ Len(chatMessages) - Cardinality(UserTurns) <= Cardinality(UserTurns)

====
